---- MODULE Spec2Model ----
(***************************************************************************)
(* Model of the Queries predicate set of gildas/go-sql, its WHERE-clause   *)
(* compiler and the Select / Delete / Insert / Update statement builders.  *)
(*                                                                         *)
(* A Query is a sequence whose elements are either operators (records with *)
(* the fields Operator and Arity, like the Go struct QueryOperator) or     *)
(* plain operands (records with the single field val).  A key is a         *)
(* sequence of one-character strings, so that the "=" prefix Add puts in   *)
(* front of an assignment key, and strings.TrimPrefix, are real string     *)
(* operations.  SQL text is a sequence of tokens.                          *)
(***************************************************************************)
EXTENDS Integers, Sequences, FiniteSets, TLC

VARIABLES queries, call, result, run, origin

vars == <<queries, call, result, run, origin>>

(***************************************************************************)
(* Bounds of the model.                                                    *)
(***************************************************************************)
\* at most this many values in one Add call
MaxValues == 3
\* at most this many elements stored in the whole set (operators included)
MaxTotal == 4

(***************************************************************************)
(* The operator catalog (query-operator.go).                               *)
(***************************************************************************)
MaxInt32 == 2147483647

QueryBetween        == [Operator |-> "BETWEEN", Arity |-> 3]
QueryDifferent      == [Operator |-> "<>", Arity |-> 2]
QueryEqual          == [Operator |-> "=", Arity |-> 2]
QueryGreater        == [Operator |-> ">", Arity |-> 2]
QueryGreaterOrEqual == [Operator |-> ">=", Arity |-> 2]
QueryIn             == [Operator |-> "IN", Arity |-> MaxInt32]
QueryLesser         == [Operator |-> "<", Arity |-> 2]
QueryLesserOrEqual  == [Operator |-> "<=", Arity |-> 2]
QueryLike           == [Operator |-> "LIKE", Arity |-> 2]
\* The declaration of QuerySet is not among the sources; the specification
\* describes it as the SET pseudo-operator of arity 2.
QuerySet            == [Operator |-> "SET", Arity |-> 2]

\* the zero value of QueryOperator, what a failed type assertion yields
ZeroOperator == [Operator |-> "", Arity |-> 0]

\* values[i].(QueryOperator) succeeds
IsOperator(v) == "Operator" \in DOMAIN v

\* a plain operand (an int, a string, ...: anything that is no QueryOperator)
Plain(n) == [val |-> n]

(***************************************************************************)
(* Inputs.                                                                 *)
(***************************************************************************)
Columns == {<<"a">>, <<"=", "a">>}
Operands == {Plain(1), Plain(2)}
OperatorInputs == {QueryGreater, QueryBetween, QueryIn, QuerySet}

Table == "person"
\* a nil column list
NoColumns == <<>>
ColumnLists == {NoColumns, << <<"x">>, <<"y">>, <<"z">> >>}

\* the value lists an Add call is given: an optional leading operator, or
\* plain operands only
ValueLists ==
    LET first == Operands \cup OperatorInputs
    IN  {<<>>} \cup
        UNION { { <<f>> \o rest : rest \in [1..n -> Operands] } :
                    <<f, n>> \in first \X (0..(MaxValues - 1)) }

\* the multi-maps url.URL.Query() returns: every key it holds has at least one
\* value, and the values are strings
URLValues ==
    UNION { [keys -> UNION { [1..n -> Operands] : n \in 1..MaxValues }] :
                keys \in SUBSET Columns }

(***************************************************************************)
(* Queries.Add (db.go, the queries part).                                  *)
(***************************************************************************)
\* a faulty variant of StoredKey: the SET operator does not prefix the key
StoredKeyPlain(key, values) == key

\* the key the values are stored under: the SET operator prefixes it
StoredKey(key, values) ==
    IF IsOperator(values[1]) /\ values[1].Operator = QuerySet.Operator
    THEN <<"=">> \o key
    ELSE key

\* a faulty variant of Promote: the operator is never replaced
PromoteNever(current) == current

\* a faulty variant of Promote: only the operator = is replaced
PromoteOnlyEqual(current) ==
    IF Len(current) = 2 /\ current[1] = QueryEqual
    THEN [current EXCEPT ![1] = QueryIn] ELSE current

\* the key is present: an entry of length 2 has its operator replaced by IN
Promote(current) ==
    IF Len(current) = 2 THEN [current EXCEPT ![1] = QueryIn] ELSE current

\* a faulty variant of NewEntry: the number of operands is not looked at
NewEntryAlwaysEqual(values) ==
    IF ~IsOperator(values[1]) THEN <<QueryEqual>> ELSE <<>>

\* a faulty variant of NewEntry: no operator is put in front of plain values
NewEntryBare(values) == <<>>

\* the key is new: what the entry holds before the values are appended
NewEntry(values) ==
    IF ~IsOperator(values[1])
    THEN IF Len(values) = 1 THEN <<QueryEqual>> ELSE <<QueryIn>>
    ELSE <<>>

\* a faulty variant of Add: without the guard on an empty value list, a new key gets
\* the entry the switch's default case makes
AddEmptyAsIn(qs, key, values) ==
    IF Len(values) = 0
    THEN [x \in (DOMAIN qs) \cup {key} |-> IF x \in DOMAIN qs THEN qs[x] ELSE <<QueryIn>>]
    ELSE LET k == StoredKey(key, values)
             base == IF k \in DOMAIN qs THEN Promote(qs[k]) ELSE NewEntry(values)
         IN  [x \in (DOMAIN qs) \cup {k} |-> IF x = k THEN base \o values ELSE qs[x]]

\* a faulty variant of Add: the values replace what the key held
AddOverwriting(qs, key, values) ==
    IF Len(values) = 0
    THEN qs
    ELSE LET k == StoredKey(key, values)
         IN  [x \in (DOMAIN qs) \cup {k} |->
                 IF x = k THEN NewEntry(values) \o values ELSE qs[x]]

Add(qs, key, values) ==
    IF Len(values) = 0
    THEN qs
    ELSE LET k == StoredKey(key, values)
             base == IF k \in DOMAIN qs THEN Promote(qs[k]) ELSE NewEntry(values)
         IN  [x \in (DOMAIN qs) \cup {k} |-> IF x = k THEN base \o values ELSE qs[x]]

\* QueriesFromURL: the strings of one key as a []interface{}
QValues(values) == [i \in 1..Len(values) |-> values[i]]

\* a faulty variant of FromURLLoop: only the first value of a key is added
RECURSIVE FromURLLoopFirstValue(_, _, _)
FromURLLoopFirstValue(qs, query, order) ==
    IF Len(order) = 0 THEN qs
    ELSE FromURLLoopFirstValue(Add(qs, order[1], <<query[order[1]][1]>>),
                               query, Tail(order))

\* a faulty variant of FromURLLoop: a key that begins with "=" is taken for an
\* assignment
RECURSIVE FromURLLoopAssigning(_, _, _)
FromURLLoopAssigning(qs, query, order) ==
    IF Len(order) = 0 THEN qs
    ELSE FromURLLoopAssigning(
             IF order[1][1] = "="
             THEN Add(qs, Tail(order[1]), <<QuerySet>> \o QValues(query[order[1]]))
             ELSE Add(qs, order[1], QValues(query[order[1]])),
             query, Tail(order))

\* QueriesFromURL: the loop over u.Query(), visited in the order `order`
RECURSIVE FromURLLoop(_, _, _)
FromURLLoop(qs, query, order) ==
    IF Len(order) = 0 THEN qs
    ELSE FromURLLoop(Add(qs, order[1], QValues(query[order[1]])), query, Tail(order))

QueriesFromURL(query, order) == FromURLLoop([k \in {} |-> <<>>], query, order)

QueriesFromRequest(query, order) == QueriesFromURL(query, order)

(***************************************************************************)
(* SQL text, as a sequence of tokens.                                      *)
(***************************************************************************)
And == <<"kw", " AND ">>
Comma == <<"kw", ", ">>
Open == <<"kw", "(">>
Close == <<"kw", ")">>
Kw(word) == <<"kw", word>>
\* a column name, rendered as it is given (%s)
Col(name) == <<"col", name>>
\* QueryOperator.String: the operator's symbol
Sym(operator) == <<"op", operator.Operator>>
\* fmt.Sprintf("$%d", n)
Ph(n) == <<"ph", n>>
\* a table name
Tbl(name) == <<"tbl", name>>

\* strings.Join(parts, ", "): each part is the text of one element
RECURSIVE JoinComma(_)
JoinComma(parts) ==
    IF Len(parts) = 0 THEN <<>>
    ELSE IF Len(parts) = 1 THEN parts[1]
    ELSE parts[1] \o <<Comma>> \o JoinComma(Tail(parts))

\* the elements of a list of names or placeholders, each as a text
Texts(tokens) == [i \in 1..Len(tokens) |-> <<tokens[i]>>]

\* strings.TrimPrefix(key, "=")
TrimPrefixEq(key) ==
    IF Len(key) > 0 /\ key[1] = "=" THEN Tail(key) ELSE key

\* strings.TrimPrefix(clause, " AND ")
TrimPrefixAnd(text) ==
    IF Len(text) > 0 /\ text[1] = And THEN Tail(text) ELSE text

(***************************************************************************)
(* Queries.WhereClause.  The map is visited in the order `order`, any      *)
(* permutation of its keys.                                                *)
(***************************************************************************)
Orders(S) ==
    { o \in [1..Cardinality(S) -> S] : \A i, j \in 1..Cardinality(S) : i # j => o[i] # o[j] }

\* values[0].(QueryOperator), ignoring a failed assertion
OperatorOf(values) == IF IsOperator(values[1]) THEN values[1] ELSE ZeroOperator

\* a faulty variant of Ignored: the SET operator is not looked at
IgnoredArityOnly(values, operator) == Len(values) # operator.Arity

\* the entry is ignored: wrong number of arguments, or the SET operator
Ignored(values, operator) ==
    Len(values) # operator.Arity \/ operator.Operator = QuerySet.Operator

\* a faulty variant of Placeholder: numbered one too high
PlaceholderNext(parms) == Ph(Len(parms) + 1)

\* the placeholder given to the parameter just appended
Placeholder(parms) == Ph(Len(parms))

\* the IN branch: one parameter and one placeholder per operand
RECURSIVE InArgs(_, _, _)
InArgs(parms, args, rest) ==
    IF Len(rest) = 0 THEN [parms |-> parms, args |-> args]
    ELSE LET p == Append(parms, rest[1])
         IN  InArgs(p, Append(args, Placeholder(p)), Tail(rest))

\* a faulty variant of WhereEntry: BETWEEN binds both its operands, as
\* "col BETWEEN $n AND $m"
WhereEntryBetweenBoth(acc, column, values) ==
    IF acc.panic \/ Len(values) = 0
    THEN [acc EXCEPT !.panic = TRUE]
    ELSE LET operator == OperatorOf(values)
         IN  IF operator.Operator = QueryIn.Operator
             THEN LET in == InArgs(acc.parms, <<>>, Tail(values))
                  IN  [acc EXCEPT
                         !.parms = in.parms,
                         !.clause = acc.clause \o <<And, Col(column), Sym(operator), Open>>
                                        \o JoinComma(Texts(in.args)) \o <<Close>>]
             ELSE IF Ignored(values, operator)
             THEN acc
             ELSE IF operator.Operator = QueryBetween.Operator
             THEN LET p == Append(acc.parms, values[2])
                      q == Append(p, values[3])
                  IN  [acc EXCEPT
                         !.parms = q,
                         !.clause = acc.clause \o <<And, Col(column), Sym(operator),
                                                    Placeholder(p), Kw(" AND "),
                                                    Placeholder(q)>>]
             ELSE LET p == Append(acc.parms, values[2])
                  IN  [acc EXCEPT
                         !.parms = p,
                         !.clause = acc.clause \o <<And, Col(column), Sym(operator), Placeholder(p)>>]

\* one iteration of the loop; acc is [clause, parms, panic]
WhereEntry(acc, column, values) ==
    IF acc.panic \/ Len(values) = 0
    THEN [acc EXCEPT !.panic = TRUE]
    ELSE LET operator == OperatorOf(values)
         IN  IF operator.Operator = QueryIn.Operator
             THEN LET in == InArgs(acc.parms, <<>>, Tail(values))
                  IN  [acc EXCEPT
                         !.parms = in.parms,
                         !.clause = acc.clause \o <<And, Col(column), Sym(operator), Open>>
                                        \o JoinComma(Texts(in.args)) \o <<Close>>]
             ELSE IF Ignored(values, operator)
             THEN acc
             ELSE LET p == Append(acc.parms, values[2])
                  IN  [acc EXCEPT
                         !.parms = p,
                         !.clause = acc.clause \o <<And, Col(column), Sym(operator), Placeholder(p)>>]

RECURSIVE WhereLoop(_, _, _)
WhereLoop(acc, qs, order) ==
    IF Len(order) = 0 THEN acc
    ELSE WhereLoop(WhereEntry(acc, order[1], qs[order[1]]), qs, Tail(order))

\* a faulty variant of WhereClause: the clause comes with its keyword
WhereClauseWithKeyword(qs, order) ==
    LET acc == WhereLoop([clause |-> <<>>, parms |-> <<>>, panic |-> FALSE], qs, order)
    IN  [clause |-> <<Kw(" WHERE ")>> \o TrimPrefixAnd(acc.clause),
         parms |-> acc.parms, panic |-> acc.panic]

WhereClause(qs, order) ==
    LET acc == WhereLoop([clause |-> <<>>, parms |-> <<>>, panic |-> FALSE], qs, order)
    IN  [clause |-> TrimPrefixAnd(acc.clause), parms |-> acc.parms, panic |-> acc.panic]

(***************************************************************************)
(* The statement builders.  Each returns [stmt, parms, panic]; panic is    *)
(* TRUE when the Go code indexes a Query out of range, and then nothing is *)
(* returned.                                                               *)
(***************************************************************************)
Returned(stmt, parms) == [stmt |-> stmt, parms |-> parms, panic |-> FALSE]
Panicked == [stmt |-> <<>>, parms |-> <<>>, panic |-> TRUE]

ColumnTexts(columns) == [i \in 1..Len(columns) |-> <<Col(columns[i])>>]

\* a faulty variant of SelectBuild: the WHERE keyword is always written
SelectBuildAlwaysWhere(table, columns, qs, order) ==
    LET where == WhereClause(qs, order)
    IN  IF where.panic THEN Panicked
        ELSE Returned(<<Kw("SELECT ")>> \o JoinComma(ColumnTexts(columns))
                        \o <<Kw(" FROM "), Tbl(table), Kw(" WHERE ")>> \o where.clause,
                      where.parms)

\* SelectStatement.Build
SelectBuild(table, columns, qs, order) ==
    LET where == WhereClause(qs, order)
    IN  IF where.panic THEN Panicked
        ELSE IF Len(where.clause) > 0
        THEN Returned(<<Kw("SELECT ")>> \o JoinComma(ColumnTexts(columns))
                        \o <<Kw(" FROM "), Tbl(table), Kw(" WHERE ")>> \o where.clause,
                      where.parms)
        ELSE Returned(<<Kw("SELECT ")>> \o JoinComma(ColumnTexts(columns))
                        \o <<Kw(" FROM "), Tbl(table)>>,
                      where.parms)

\* a faulty variant of DeleteBuild: an empty WHERE clause is refused, as
\* Update.Build refuses it
DeleteBuildRefusing(table, columns, qs, order) ==
    LET where == WhereClause(qs, order)
    IN  IF where.panic THEN Panicked
        ELSE IF Len(where.clause) > 0
        THEN Returned(<<Kw("DELETE FROM "), Tbl(table), Kw(" WHERE ")>> \o where.clause,
                      where.parms)
        ELSE Returned(<<>>, <<>>)

\* a faulty variant of DeleteBuild: the WHERE keyword is always written
DeleteBuildAlwaysWhere(table, columns, qs, order) ==
    LET where == WhereClause(qs, order)
    IN  IF where.panic THEN Panicked
        ELSE Returned(<<Kw("DELETE FROM "), Tbl(table), Kw(" WHERE ")>> \o where.clause,
                      where.parms)

\* DeleteStatement.Build
DeleteBuild(table, columns, qs, order) ==
    LET where == WhereClause(qs, order)
    IN  IF where.panic THEN Panicked
        ELSE IF Len(where.clause) > 0
        THEN Returned(<<Kw("DELETE FROM "), Tbl(table), Kw(" WHERE ")>> \o where.clause,
                      where.parms)
        ELSE Returned(<<Kw("DELETE FROM "), Tbl(table)>>, where.parms)

\* InsertStatement.Build: one iteration of the loop; acc is [cols, values, parms, panic]
InsertEntry(acc, key, query) ==
    IF acc.panic \/ Len(query) < 2
    THEN [acc EXCEPT !.panic = TRUE]
    ELSE LET p == Append(acc.parms, query[2])
         IN  [acc EXCEPT
                !.cols = Append(acc.cols, Col(TrimPrefixEq(key))),
                !.parms = p,
                !.values = Append(acc.values, Placeholder(p))]

RECURSIVE InsertLoop(_, _, _)
InsertLoop(acc, qs, order) ==
    IF Len(order) = 0 THEN acc
    ELSE InsertLoop(InsertEntry(acc, order[1], qs[order[1]]), qs, Tail(order))

InsertBuild(table, columns, qs, order) ==
    LET acc == InsertLoop([cols |-> <<>>, values |-> <<>>, parms |-> <<>>, panic |-> FALSE],
                          qs, order)
    IN  IF acc.panic THEN Panicked
        ELSE Returned(<<Kw("INSERT INTO "), Tbl(table), Kw(" (")>> \o JoinComma(Texts(acc.cols))
                        \o <<Kw(") VALUES (")>> \o JoinComma(Texts(acc.values)) \o <<Close>>,
                      acc.parms)

\* UpdateStatement.Build: the text of one assignment
Assignment(key, parms) == <<Col(TrimPrefixEq(key)), Kw(" = "), Placeholder(parms)>>

\* UpdateStatement.Build: one iteration of the second loop; acc is
\* [assignments, parms, panic]
UpdateEntry(acc, key, values) ==
    IF acc.panic \/ Len(values) = 0
    THEN [acc EXCEPT !.panic = TRUE]
    ELSE IF IsOperator(values[1]) /\ values[1].Operator = QuerySet.Operator
    THEN IF Len(values) < 2
         THEN [acc EXCEPT !.panic = TRUE]
         ELSE LET p == Append(acc.parms, values[2])
              IN  [acc EXCEPT
                     !.parms = p,
                     !.assignments = Append(acc.assignments, Assignment(key, p))]
    ELSE acc

RECURSIVE UpdateLoop(_, _, _)
UpdateLoop(acc, qs, order) ==
    IF Len(order) = 0 THEN acc
    ELSE UpdateLoop(UpdateEntry(acc, order[1], qs[order[1]]), qs, Tail(order))

\* a faulty variant of UpdateBuild: the assignments are numbered from $1 again
UpdateBuildRestart(table, columns, qs, order, order2) ==
    LET where == WhereClause(qs, order)
    IN  IF where.panic THEN Panicked
        ELSE IF Len(where.clause) = 0 THEN Returned(<<>>, <<>>)
        ELSE LET acc == UpdateLoop([assignments |-> <<>>, parms |-> <<>>,
                                    panic |-> FALSE], qs, order2)
             IN  IF acc.panic THEN Panicked
                 ELSE Returned(<<Kw("UPDATE "), Tbl(table), Kw(" SET ")>>
                                 \o JoinComma(acc.assignments)
                                 \o <<Kw(" WHERE ")>> \o where.clause,
                               where.parms \o acc.parms)

\* a faulty variant of UpdateBuild: an empty WHERE clause is not refused
UpdateBuildUnconditional(table, columns, qs, order, order2) ==
    LET where == WhereClause(qs, order)
    IN  IF where.panic THEN Panicked
        ELSE LET acc == UpdateLoop([assignments |-> <<>>, parms |-> where.parms,
                                    panic |-> FALSE], qs, order2)
             IN  IF acc.panic THEN Panicked
                 ELSE Returned(<<Kw("UPDATE "), Tbl(table), Kw(" SET ")>>
                                 \o JoinComma(acc.assignments)
                                 \o <<Kw(" WHERE ")>> \o where.clause,
                               acc.parms)

\* order is the order of the WhereClause loop, order2 that of Build's own loop
UpdateBuild(table, columns, qs, order, order2) ==
    LET where == WhereClause(qs, order)
    IN  IF where.panic THEN Panicked
        ELSE IF Len(where.clause) = 0 THEN Returned(<<>>, <<>>)
        ELSE LET acc == UpdateLoop([assignments |-> <<>>, parms |-> where.parms,
                                    panic |-> FALSE], qs, order2)
             IN  IF acc.panic THEN Panicked
                 ELSE Returned(<<Kw("UPDATE "), Tbl(table), Kw(" SET ")>>
                                 \o JoinComma(acc.assignments)
                                 \o <<Kw(" WHERE ")>> \o where.clause,
                               acc.parms)

(***************************************************************************)
(* State.                                                                  *)
(*   queries  the Queries map                                              *)
(*   call     the last call made: its name, its arguments (the order in    *)
(*            which a range loop visits the map is no argument and is not  *)
(*            kept), for Add the map as it was before the call and, for    *)
(*            QueriesFromURL and QueriesFromRequest, the query of the URL  *)
(*   result   what the last WhereClause or Build returned                  *)
(*   run      the calls so far, summarised: "new" before any call, "same"  *)
(*            while every call was an Add of one plain operand on one and  *)
(*            the same key (with that key and the operands, in order),     *)
(*            "mixed" afterwards                                           *)
(*   origin   for every element of every entry, whether the Add call that  *)
(*            stored it had the SET operator as its first value            *)
(***************************************************************************)
RECURSIVE SumLen(_, _)
SumLen(qs, keys) ==
    IF keys = {} THEN 0
    ELSE LET k == CHOOSE x \in keys : TRUE
         IN  Len(qs[k]) + SumLen(qs, keys \ {k})

Total(qs) == SumLen(qs, DOMAIN qs)

NoKey == <<>>
\* Queries{}
NoQueries == [k \in {} |-> <<>>]
NoCall == [op |-> "new", key |-> NoKey, values |-> <<>>, before |-> NoQueries,
           columns |-> <<>>, query |-> NoQueries]
NoResult == [stmt |-> <<>>, parms |-> <<>>, panic |-> FALSE]
BuildCall(op, columns) ==
    [NoCall EXCEPT !.op = op, !.columns = columns]
NewRun == [state |-> "new", key |-> NoKey, vals |-> <<>>]
MixedRun == [state |-> "mixed", key |-> NoKey, vals |-> <<>>]

NextRun(r, key, values) ==
    IF Len(values) = 1 /\ ~IsOperator(values[1])
       /\ (r.state = "new" \/ (r.state = "same" /\ r.key = key))
    THEN [state |-> "same", key |-> key, vals |-> r.vals \o values]
    ELSE MixedRun

\* the Add call was given the SET operator as its first value
UnderSet(values) ==
    Len(values) > 0 /\ IsOperator(values[1]) /\ values[1].Operator = QuerySet.Operator

\* the origin of the elements of after: what o has, and the call for the rest
NextOrigin(o, after, values) ==
    [k \in DOMAIN after |->
        LET old == IF k \in DOMAIN o THEN o[k] ELSE <<>>
        IN  [i \in 1..Len(after[k]) |->
                IF i <= Len(old) THEN old[i] ELSE UnderSet(values)]]

Init ==
    /\ queries = NoQueries
    /\ call = NoCall
    /\ result = NoResult
    /\ run = NewRun
    /\ origin = NoQueries

AddCall(key, values) ==
    /\ Total(Add(queries, key, values)) <= MaxTotal
    /\ queries' = Add(queries, key, values)
    /\ call' = [NoCall EXCEPT
                   !.op = "Add", !.key = key, !.values = values, !.before = queries]
    /\ result' = NoResult
    /\ run' = NextRun(run, key, values)
    /\ origin' = NextOrigin(origin, Add(queries, key, values), values)

\* nothing has been done yet with the set: it can still be made from a URL
\* instead of Queries{}
Fresh == call.op = "new"

\* the set is made by QueriesFromURL
FromURLCall(query, order) ==
    /\ Total(QueriesFromURL(query, order)) <= MaxTotal
    /\ queries' = QueriesFromURL(query, order)
    /\ call' = [NoCall EXCEPT !.op = "FromURL", !.query = query]
    /\ result' = NoResult
    /\ run' = MixedRun
    /\ origin' = NextOrigin(NoQueries, QueriesFromURL(query, order), <<>>)

\* the set is made by QueriesFromRequest
FromRequestCall(query, order) ==
    /\ Total(QueriesFromRequest(query, order)) <= MaxTotal
    /\ queries' = QueriesFromRequest(query, order)
    /\ call' = [NoCall EXCEPT !.op = "FromRequest", !.query = query]
    /\ result' = NoResult
    /\ run' = MixedRun
    /\ origin' = NextOrigin(NoQueries, QueriesFromRequest(query, order), <<>>)

WhereClauseCall(order) ==
    /\ LET where == WhereClause(queries, order)
       IN  result' = [stmt |-> where.clause, parms |-> where.parms, panic |-> where.panic]
    /\ call' = BuildCall("WhereClause", NoColumns)
    /\ UNCHANGED <<queries, run, origin>>

SelectCall(table, columns, order) ==
    /\ result' = SelectBuild(table, columns, queries, order)
    /\ call' = BuildCall("Select", columns)
    /\ UNCHANGED <<queries, run, origin>>

DeleteCall(table, columns, order) ==
    /\ result' = DeleteBuild(table, columns, queries, order)
    /\ call' = BuildCall("Delete", columns)
    /\ UNCHANGED <<queries, run, origin>>

InsertCall(table, columns, order) ==
    /\ result' = InsertBuild(table, columns, queries, order)
    /\ call' = BuildCall("Insert", columns)
    /\ UNCHANGED <<queries, run, origin>>

\* a faulty variant of UpdateCall: the assignments Build has written are taken
\* out of the set
UpdateCallConsuming(table, columns, order, order2) ==
    /\ result' = UpdateBuild(table, columns, queries, order, order2)
    /\ call' = BuildCall("Update", columns)
    /\ LET kept == IF result'.panic \/ Len(result'.stmt) = 0 THEN DOMAIN queries
                   ELSE {k \in DOMAIN queries :
                            ~(IsOperator(queries[k][1])
                              /\ queries[k][1].Operator = QuerySet.Operator)}
       IN  /\ queries' = [k \in kept |-> queries[k]]
           /\ origin' = [k \in kept |-> origin[k]]
    /\ UNCHANGED run

UpdateCall(table, columns, order, order2) ==
    /\ result' = UpdateBuild(table, columns, queries, order, order2)
    /\ call' = BuildCall("Update", columns)
    /\ UNCHANGED <<queries, run, origin>>

Next ==
    \/ Fresh /\ \E query \in URLValues : \E order \in Orders(DOMAIN query) :
                    FromURLCall(query, order)
    \/ Fresh /\ \E query \in URLValues : \E order \in Orders(DOMAIN query) :
                    FromRequestCall(query, order)
    \/ \E key \in Columns, values \in ValueLists : AddCall(key, values)
    \/ \E order \in Orders(DOMAIN queries) : WhereClauseCall(order)
    \/ \E columns \in ColumnLists, order \in Orders(DOMAIN queries) :
           SelectCall(Table, columns, order)
    \/ \E columns \in ColumnLists, order \in Orders(DOMAIN queries) :
           DeleteCall(Table, columns, order)
    \/ \E order \in Orders(DOMAIN queries) : InsertCall(Table, NoColumns, order)
    \/ \E order \in Orders(DOMAIN queries), order2 \in Orders(DOMAIN queries) :
           UpdateCall(Table, NoColumns, order, order2)

NextAdd ==
    \E key \in Columns, values \in ValueLists : AddCall(key, values)

NextWhere ==
    \/ \E key \in Columns, values \in ValueLists : AddCall(key, values)
    \/ \E order \in Orders(DOMAIN queries) : WhereClauseCall(order)

SpecAdd == Init /\ [][NextAdd]_vars

SpecWhere == Init /\ [][NextWhere]_vars

\* a set made from a URL and read, nothing being added to it
NextURL ==
    \/ Fresh /\ \E query \in URLValues : \E order \in Orders(DOMAIN query) :
                    FromURLCall(query, order)
    \/ Fresh /\ \E query \in URLValues : \E order \in Orders(DOMAIN query) :
                    FromRequestCall(query, order)
    \/ \E order \in Orders(DOMAIN queries) : WhereClauseCall(order)
    \/ \E columns \in ColumnLists, order \in Orders(DOMAIN queries) :
           SelectCall(Table, columns, order)
    \/ \E columns \in ColumnLists, order \in Orders(DOMAIN queries) :
           DeleteCall(Table, columns, order)
    \/ \E order \in Orders(DOMAIN queries) : InsertCall(Table, NoColumns, order)
    \/ \E order \in Orders(DOMAIN queries), order2 \in Orders(DOMAIN queries) :
           UpdateCall(Table, NoColumns, order, order2)

SpecURL == Init /\ [][NextURL]_vars

Spec == Init /\ [][Next]_vars

(***************************************************************************)
(* Properties of Add.                                                      *)
(***************************************************************************)
AllPlain(values) == \A i \in 1..Len(values) : ~IsOperator(values[i])

\* the last call was Add with at least one value
Added == call.op = "Add" /\ Len(call.values) > 0

\* the key an assignment to the column is kept under
AssignmentKey(column) == <<"=">> \o column

\* the key the last Add call had to store its values under
AddKey ==
    IF IsOperator(call.values[1]) /\ call.values[1].Operator = QuerySet.Operator
    THEN AssignmentKey(call.key)
    ELSE call.key

\* C1: a set built from the empty set by k >= 1 Add calls on one key, each
\* with one plain operand, holds one entry: the operator, = when k = 1 and IN
\* when k >= 2, followed by the k operands in the order they were added
C1_SingleOperandAdds ==
    run.state = "same" =>
        /\ DOMAIN queries = {run.key}
        /\ Len(queries[run.key]) = Len(run.vals) + 1
        /\ queries[run.key][1] = IF Len(run.vals) = 1 THEN QueryEqual ELSE QueryIn
        /\ Tail(queries[run.key]) = run.vals

C1_Witness ==
    /\ run.state = "same"
    /\ run.vals = <<Plain(2), Plain(1), Plain(2)>>
    /\ queries[run.key][1] = QueryIn

\* C2: Add of n >= 1 plain values on a key that is not in the set creates an
\* entry of length n + 1: = if n = 1, IN if n >= 2, then the values in order
C2_NewKeyPlainValues ==
    (Added /\ AllPlain(call.values) /\ call.key \notin DOMAIN call.before) =>
        /\ call.key \in DOMAIN queries
        /\ Len(queries[call.key]) = Len(call.values) + 1
        /\ queries[call.key][1] = IF Len(call.values) = 1 THEN QueryEqual ELSE QueryIn
        /\ Tail(queries[call.key]) = call.values

C2_Witness ==
    /\ Added /\ AllPlain(call.values) /\ call.key \notin DOMAIN call.before
    /\ call.values = <<Plain(2), Plain(1)>>
    /\ queries[call.key] = <<QueryIn, Plain(2), Plain(1)>>

\* C3: after an Add whose first value is an operator, on a new key or on a key
\* already present, the entry's operator is that operator and its operands are
\* the operands it had followed by the values passed after the operator: the
\* operator is stored in no operand position
C3_OperatorGovernsEntry ==
    (Added /\ IsOperator(call.values[1])) =>
        LET old == IF AddKey \in DOMAIN call.before
                   THEN Tail(call.before[AddKey]) ELSE <<>>
        IN  /\ AddKey \in DOMAIN queries
            /\ queries[AddKey][1] = call.values[1]
            /\ Tail(queries[AddKey]) = old \o Tail(call.values)

\* C4: Add of at least one value on a stored key that exists: an entry of
\* length 2 has its operator replaced by IN, whatever it was, and the values
\* appended after its operand; any other entry keeps its operator and has the
\* values appended
C4_ExistingKey ==
    (Added /\ AddKey \in DOMAIN call.before) =>
        LET current == call.before[AddKey]
        IN  /\ AddKey \in DOMAIN queries
            /\ queries[AddKey] =
                  IF Len(current) = 2
                  THEN <<QueryIn, current[2]>> \o call.values
                  ELSE current \o call.values

C4_Witness ==
    /\ Added /\ AddKey \in DOMAIN call.before
    /\ call.before[AddKey] = <<QueryGreater, Plain(1)>>
    /\ queries[AddKey] = <<QueryIn, Plain(1), Plain(2)>>

\* C5: Add with no value leaves the set as it was: the same keys, and the
\* same operator and operands under each, whether or not the key is present
C5_NoValues ==
    (call.op = "Add" /\ Len(call.values) = 0) => queries = call.before

C5_Witness ==
    /\ call.op = "Add" /\ Len(call.values) = 0
    /\ call.key \notin DOMAIN call.before
    /\ DOMAIN queries # {}
    /\ queries = call.before

\* C6: for a column whose name does not begin with "=": Add(col, SET, ...)
\* creates or changes only the entry under "=col"; Add(col, ...) with another
\* first value leaves the entry under "=col" as it was; and Add(col, x) and
\* Add(col, SET, y), in either order from the empty set, leave the two entries
\* [=, x] under col and [SET, y] under "=col"
C6_AssignmentKeyApart ==
    (Added /\ call.key[1] # "=") =>
        LET col == call.key
            set == AssignmentKey(col)
            unchanged(k) == (k \in DOMAIN queries) = (k \in DOMAIN call.before)
                            /\ (k \in DOMAIN queries => queries[k] = call.before[k])
            two(x, y) == /\ DOMAIN queries = {col, set}
                         /\ queries[col] = <<QueryEqual, x>>
                         /\ queries[set] = <<QuerySet, y>>
        IN  /\ (IsOperator(call.values[1]) /\ call.values[1].Operator = QuerySet.Operator)
                  => /\ set \in DOMAIN queries
                     /\ \A k \in (DOMAIN queries) \cup (DOMAIN call.before) :
                           k # set => unchanged(k)
            /\ ~(IsOperator(call.values[1]) /\ call.values[1].Operator = QuerySet.Operator)
                  => unchanged(set)
            /\ \A x, y \in Operands :
                  /\ (DOMAIN call.before = {col} /\ call.before[col] = <<QueryEqual, x>>
                        /\ call.values = <<QuerySet, y>>) => two(x, y)
                  /\ (DOMAIN call.before = {set} /\ call.before[set] = <<QuerySet, y>>
                        /\ call.values = <<x>>) => two(x, y)

C6_Witness ==
    /\ Added /\ call.key = <<"a">>
    /\ call.values = <<QuerySet, Plain(2)>>
    /\ DOMAIN call.before = {<<"a">>}
    /\ call.before[<<"a">>] = <<QueryEqual, Plain(1)>>
    /\ queries[<<"a">>] = <<QueryEqual, Plain(1)>>
    /\ queries[<<"=", "a">>] = <<QuerySet, Plain(2)>>

(***************************************************************************)
(* Properties of WhereClause and of the statements.                        *)
(***************************************************************************)
IsIn(entry) == IsOperator(entry[1]) /\ entry[1].Operator = QueryIn.Operator
IsSet(entry) == IsOperator(entry[1]) /\ entry[1].Operator = QuerySet.Operator

\* a valid filter entry: an IN entry, or an entry of another operator than
\* SET whose length is the operator's arity
ValidFilter(entry) ==
    \/ IsIn(entry)
    \/ IsOperator(entry[1]) /\ ~IsSet(entry) /\ Len(entry) = entry[1].Arity

\* an entry the compiler is to skip: not IN and not of its operator's arity,
\* or SET
Skipped(entry) ==
    \/ ~IsIn(entry) /\ Len(entry) # OperatorOf(entry).Arity
    \/ IsSet(entry)

RECURSIVE Operands_(_, _)
Operands_(qs, keys) ==
    IF keys = {} THEN 0
    ELSE LET k == CHOOSE x \in keys : TRUE
         IN  (Len(qs[k]) - 1) + Operands_(qs, keys \ {k})

\* the sum of the operand counts of the entries under keys
OperandCount(qs, keys) == Operands_(qs, keys)

\* len(strings.Split(text, " AND ")), 0 for the empty text
Fragments(text) ==
    IF Len(text) = 0 THEN 0
    ELSE Cardinality({i \in 1..Len(text) : text[i] = And}) + 1

\* no fragment of the text is empty: no " AND " at either end, no two in a row
NoStrayAnd(text) ==
    Len(text) > 0 =>
        /\ text[1] # And
        /\ text[Len(text)] # And
        /\ \A i \in 1..(Len(text) - 1) : ~(text[i] = And /\ text[i + 1] = And)

WhereReturned == call.op = "WhereClause" /\ ~result.panic

\* C7: WhereClause on a set with N valid filter entries returns N fragments
\* joined by " AND ", none at either end, and as many parameters as those
\* entries have operands
C7_FragmentsAndParameters ==
    WhereReturned =>
        LET valid == {k \in DOMAIN queries : ValidFilter(queries[k])}
        IN  /\ Fragments(result.stmt) = Cardinality(valid)
            /\ NoStrayAnd(result.stmt)
            /\ Len(result.parms) = OperandCount(queries, valid)

\* C8: the entries to skip contribute no fragment and no parameter and use no
\* placeholder number: WhereClause returns what it returns, in some order, on
\* the set without them
C8_SkippedEntries ==
    WhereReturned =>
        LET kept == {k \in DOMAIN queries : ~Skipped(queries[k])}
            rest == [k \in kept |-> queries[k]]
        IN  /\ \E order \in Orders(kept) :
                  LET where == WhereClause(rest, order)
                  IN  where.clause = result.stmt /\ where.parms = result.parms
            /\ \A k \in (DOMAIN queries) \ kept :
                  \A i \in 1..Len(result.stmt) : result.stmt[i] # Col(k)

C8_Witness ==
    /\ WhereReturned
    /\ \E k \in DOMAIN queries : IsSet(queries[k])
    /\ \E k \in DOMAIN queries : ~IsIn(queries[k]) /\ ~IsSet(queries[k])
                                    /\ Len(queries[k]) # queries[k][1].Arity
    /\ \E k \in DOMAIN queries : ~Skipped(queries[k])
    /\ Len(result.parms) = 1

\* the fragment of text that starts with the column at position i binds the
\* operands of that column's entry
FragmentBound(text, parms, i) ==
    LET k == text[i][2]
        bound(t, v) == /\ t[1] = "ph"
                       /\ t[2] \in 1..Len(parms)
                       /\ parms[t[2]] = v
    IN  /\ k \in DOMAIN queries
        /\ i + 2 <= Len(text)
        /\ text[i + 1] = <<"op", queries[k][1].Operator>>
        /\ IF IsIn(queries[k])
           THEN LET m == Len(queries[k]) - 1
                    last == IF m = 0 THEN i + 3 ELSE i + 2 + 2 * m
                IN  /\ last <= Len(text)
                    /\ text[i + 2] = Open
                    /\ \A j \in 1..m : bound(text[i + 1 + 2 * j], queries[k][j + 1])
                    /\ \A j \in 1..(m - 1) : text[i + 2 + 2 * j] = Comma
                    /\ text[last] = Close
                    /\ (last = Len(text) \/ text[last + 1] = And)
           ELSE /\ Len(queries[k]) >= 2
                /\ bound(text[i + 2], queries[k][2])
                /\ (i + 2 = Len(text) \/ text[i + 3] = And)

\* C9: whatever the order the map is visited in, each fragment WhereClause
\* emits is consistent: in "col op $n" parameter n is the first operand of
\* col's entry, and in "col IN ($i, $j, ...)" the placeholders are bound to the
\* operands of col's entry, in their order
C9_FragmentsConsistent ==
    WhereReturned =>
        \A i \in 1..Len(result.stmt) :
            result.stmt[i][1] = "col" => FragmentBound(result.stmt, result.parms, i)

C9_Witness ==
    /\ WhereReturned
    /\ result.stmt = <<Col(<<"a">>), Sym(QueryIn), Open, Ph(1), Close, And,
                       Col(<<"=", "a">>), Sym(QueryGreater), Ph(2)>>
    /\ result.parms = <<Plain(2), Plain(1)>>

\* the numbers of the placeholders of a text, in the order they occur
PlaceholderNumbers(text) ==
    LET ph == SelectSeq(text, LAMBDA t : t[1] = "ph")
    IN  [i \in 1..Len(ph) |-> ph[i][2]]

Built == call.op \in {"Select", "Delete", "Insert", "Update"} /\ ~result.panic

\* C10: the placeholders of a statement a builder returns are $1..$N, each
\* once, N being the number of parameters returned with it; Update numbers
\* those of its WHERE clause and of its SET list together
C10_PlaceholdersNumbered ==
    Built =>
        LET n == PlaceholderNumbers(result.stmt)
        IN  /\ Len(n) = Len(result.parms)
            /\ {n[i] : i \in 1..Len(n)} = 1..Len(result.parms)

C10_Witness ==
    /\ call.op = "Update" /\ ~result.panic
    /\ result.stmt = <<Kw("UPDATE "), Tbl(Table), Kw(" SET "),
                       Col(<<"a">>), Kw(" = "), Ph(2),
                       Kw(" WHERE "), Col(<<"a">>), Sym(QueryEqual), Ph(1)>>
    /\ result.parms = <<Plain(1), Plain(2)>>

(***************************************************************************)
(* The statement builders.                                                 *)
(***************************************************************************)
\* the position of the " WHERE " keyword of a statement, 0 when it has none
WherePos(stmt) ==
    LET at == {i \in 1..Len(stmt) : stmt[i] = Kw(" WHERE ")}
    IN  IF at = {} THEN 0 ELSE CHOOSE i \in at : TRUE

\* the part of a statement before its " WHERE " keyword, and the part after
BeforeWhere(stmt) == SubSeq(stmt, 1, WherePos(stmt) - 1)
AfterWhere(stmt) == SubSeq(stmt, WherePos(stmt) + 1, Len(stmt))

\* the set compiles to a WHERE clause that is not empty
HasWhere(qs) == \E order \in Orders(DOMAIN qs) : Len(WhereClause(qs, order).clause) > 0

\* the entries tagged SET
Tagged(qs) == {k \in DOMAIN qs : IsSet(qs[k])}

\* what Update.Build returned is the WHERE clause of the set with its
\* parameters, followed by the first operand of every entry tagged SET, and
\* the SET list is numbered above the WHERE clause
UpdateReturned ==
    LET clause == AfterWhere(result.stmt)
        n == Len(PlaceholderNumbers(clause))
        above == PlaceholderNumbers(BeforeWhere(result.stmt))
        tagged == Tagged(queries)
    IN  /\ WherePos(result.stmt) > 0
        /\ \E order \in Orders(DOMAIN queries) :
              LET where == WhereClause(queries, order)
              IN  where.clause = clause /\ where.parms = SubSeq(result.parms, 1, n)
        /\ Len(result.parms) = n + Cardinality(tagged)
        /\ \E o \in Orders(tagged) :
              \A i \in 1..Cardinality(tagged) :
                  /\ Len(queries[o[i]]) >= 2
                  /\ result.parms[n + i] = queries[o[i]][2]
        /\ Len(above) = Cardinality(tagged)
        /\ \A i \in 1..Len(above) : above[i] > n

\* Add("age", x).Add("age", SET, y), with a for age
AgeExample(x, y) ==
    (<<"a">> :> <<QueryEqual, x>>) @@ (AssignmentKey(<<"a">>) :> <<QuerySet, y>>)

\* C11: Update.Build on a set whose WHERE clause is not empty returns the
\* parameters of WhereClause followed by the first operand of every entry
\* tagged SET, one each, and numbers every placeholder of the SET list above
\* those of the WHERE clause; for Add("age", x).Add("age", SET, y) on person it
\* returns "UPDATE person SET age = $2 WHERE age = $1" with x, y
C11_UpdateParameters ==
    call.op = "Update" /\ HasWhere(queries) =>
        /\ ~result.panic
        /\ UpdateReturned
        /\ \A x, y \in Operands :
              queries = AgeExample(x, y) =>
                  /\ result.stmt = <<Kw("UPDATE "), Tbl(Table), Kw(" SET "),
                                     Col(<<"a">>), Kw(" = "), Ph(2),
                                     Kw(" WHERE "), Col(<<"a">>), Sym(QueryEqual), Ph(1)>>
                  /\ result.parms = <<x, y>>

\* C12: Update.Build returns the empty statement and no parameter whenever
\* no entry of the set compiles to a fragment (the set is empty, or holds only
\* entries tagged SET or of the wrong arity), whatever the assignments; and a
\* statement it returns that is not empty has a WHERE clause that is not empty
C12_UpdateRefuses ==
    call.op = "Update" =>
        /\ (\A k \in DOMAIN queries : Skipped(queries[k])) =>
              result = [stmt |-> <<>>, parms |-> <<>>, panic |-> FALSE]
        /\ (~result.panic /\ Len(result.stmt) > 0) =>
              /\ WherePos(result.stmt) > 0
              /\ Len(AfterWhere(result.stmt)) > 0
              /\ \E k \in DOMAIN queries :
                    ~Skipped(queries[k]) /\ AfterWhere(result.stmt)[1] = Col(k)

C12_Witness ==
    /\ call.op = "Update"
    /\ \E k \in DOMAIN queries : IsSet(queries[k]) /\ Len(queries[k]) = 2
    /\ \E k \in DOMAIN queries : ~IsSet(queries[k])
    /\ \A k \in DOMAIN queries : Skipped(queries[k])
    /\ result = [stmt |-> <<>>, parms |-> <<>>, panic |-> FALSE]

(***************************************************************************)
(* Assignments and filters.                                                *)
(***************************************************************************)
\* every element of the entry under k was stored by an Add call under SET
OnlyUnderSet(k) == \A j \in 1..Len(origin[k]) : origin[k][j]

\* the operands of the entry under k that a fragment for k binds: all of them
\* for IN, the first for another operator
BoundOperands(k) ==
    IF IsIn(queries[k]) THEN 2..Len(queries[k]) ELSE {2} \cap (1..Len(queries[k]))

\* C13: whatever Add calls built the set, no value that was added under the
\* SET operator is among the parameters WhereClause returns, and no column
\* that was added under SET only is in the text of the clause
C13_AssignmentsOutOfWhere ==
    WhereReturned =>
        /\ \A i \in 1..Len(result.stmt) :
              result.stmt[i][1] = "col" /\ result.stmt[i][2] \in DOMAIN queries =>
                  \A j \in BoundOperands(result.stmt[i][2]) :
                      ~origin[result.stmt[i][2]][j]
        /\ \A k \in DOMAIN queries :
              OnlyUnderSet(k) =>
                  \A i \in 1..Len(result.stmt) :
                      /\ result.stmt[i] # Col(k)
                      /\ TrimPrefixEq(k) \notin DOMAIN queries =>
                            result.stmt[i] # Col(TrimPrefixEq(k))

\* no Add call was given a column that begins with "=": every key that begins
\* with "=" is a column with the assignment prefix, stored under SET only
PlainColumns ==
    \A k \in DOMAIN queries :
        k[1] = "=" => k[2] # "=" /\ OnlyUnderSet(k)

\* C14: a column rendered from a stored key that carries the "=" prefix is
\* rendered without it: no clause and no statement made from a set that Add
\* built has a column that begins with "="
C14_PrefixStripped ==
    (WhereReturned \/ Built) /\ PlainColumns =>
        \A i \in 1..Len(result.stmt) :
            result.stmt[i][1] = "col" => result.stmt[i][2][1] # "="

\* C15: WhereClause and the Build of every builder return on every set Add
\* can build, a set with an operator that has no operand included: none
\* fails at run time
C15_NoRunTimeFailure ==
    call.op \in {"WhereClause", "Select", "Delete", "Insert", "Update"} => ~result.panic

(***************************************************************************)
(* Select, Delete and Insert.                                              *)
(***************************************************************************)
\* the names of a list with ", " between them
ColumnList(columns) ==
    [i \in 1..(2 * Len(columns) - 1) |->
        IF i % 2 = 1 THEN Col(columns[(i + 1) \div 2]) ELSE Comma]

\* what a builder returned is head, followed by " WHERE " and the clause when
\* WhereClause returns one that is not empty, with the parameters of
\* WhereClause
WithWhere(head) ==
    \E order \in Orders(DOMAIN queries) :
        LET where == WhereClause(queries, order)
        IN  /\ result.parms = where.parms
            /\ result.stmt = IF Len(where.clause) = 0 THEN head
                             ELSE head \o <<Kw(" WHERE ")>> \o where.clause

\* C16: Select.Build returns "SELECT <columns joined by ', '> FROM <table>",
\* followed by " WHERE <clause>" exactly when the clause of WhereClause is not
\* empty, and the parameters of WhereClause; for the columns x, y, z, the
\* table person and the one filter a = v it returns
\* "SELECT x, y, z FROM person WHERE a = $1" with v
C16_SelectStatement ==
    call.op = "Select" =>
        /\ ~result.panic
        /\ WithWhere(<<Kw("SELECT ")>> \o ColumnList(call.columns)
                       \o <<Kw(" FROM "), Tbl(Table)>>)
        /\ WherePos(result.stmt) > 0 <=> ~(\A k \in DOMAIN queries : Skipped(queries[k]))
        /\ \A v \in Operands :
              /\ call.columns = << <<"x">>, <<"y">>, <<"z">> >>
              /\ queries = (<<"a">> :> <<QueryEqual, v>>)
              => /\ result.stmt = <<Kw("SELECT "), Col(<<"x">>), Comma, Col(<<"y">>),
                                    Comma, Col(<<"z">>), Kw(" FROM "), Tbl(Table),
                                    Kw(" WHERE "), Col(<<"a">>), Sym(QueryEqual), Ph(1)>>
                 /\ result.parms = <<v>>

C16_Witness ==
    /\ call.op = "Select"
    /\ call.columns = << <<"x">>, <<"y">>, <<"z">> >>
    /\ queries = (<<"a">> :> <<QueryEqual, Plain(1)>>)
    /\ result = [stmt |-> <<Kw("SELECT "), Col(<<"x">>), Comma, Col(<<"y">>),
                            Comma, Col(<<"z">>), Kw(" FROM "), Tbl(Table),
                            Kw(" WHERE "), Col(<<"a">>), Sym(QueryEqual), Ph(1)>>,
                 parms |-> <<Plain(1)>>,
                 panic |-> FALSE]

\* C17: Delete.Build on the empty set returns "DELETE FROM <table>" and no
\* parameter, whatever the columns it is given; on a set whose clause is not
\* empty it returns "DELETE FROM <table> WHERE <clause>" with the parameters of
\* WhereClause
C17_DeleteStatement ==
    call.op = "Delete" =>
        /\ ~result.panic
        /\ queries = NoQueries =>
              /\ result.stmt = <<Kw("DELETE FROM "), Tbl(Table)>>
              /\ result.parms = <<>>
        /\ HasWhere(queries) =>
              /\ WherePos(result.stmt) = 3
              /\ Len(AfterWhere(result.stmt)) > 0
        /\ WithWhere(<<Kw("DELETE FROM "), Tbl(Table)>>)

C17_Witness ==
    /\ call.op = "Delete"
    /\ call.columns = << <<"x">>, <<"y">>, <<"z">> >>
    /\ queries = NoQueries
    /\ result = [stmt |-> <<Kw("DELETE FROM "), Tbl(Table)>>, parms |-> <<>>,
                 panic |-> FALSE]

\* the placeholders $1..$n with ", " between them
PlaceholderList(n) ==
    [i \in 1..(2 * n - 1) |-> IF i % 2 = 1 THEN Ph((i + 1) \div 2) ELSE Comma]

\* C18: Insert.Build emits one column, one placeholder and one parameter for
\* every key of the set, aligned: in the order the keys are visited in, the
\* i-th column is the i-th key without its "=" prefix, the i-th value is $i
\* and the i-th parameter is the first operand of the key's entry, whatever
\* its operator and its other operands
C18_InsertAligned ==
    call.op = "Insert" =>
        /\ ~result.panic
        /\ \E order \in Orders(DOMAIN queries) :
              /\ result.stmt =
                    <<Kw("INSERT INTO "), Tbl(Table), Kw(" (")>>
                    \o ColumnList([i \in 1..Len(order) |-> TrimPrefixEq(order[i])])
                    \o <<Kw(") VALUES (")>>
                    \o PlaceholderList(Len(order))
                    \o <<Close>>
              /\ result.parms = [i \in 1..Len(order) |-> queries[order[i]][2]]

(***************************************************************************)
(* The set under WhereClause and Build.                                    *)
(***************************************************************************)
\* what one call of WhereClause on qs can return, the order of the visit
\* being any
SingleWhere(qs) ==
    {[stmt |-> WhereClause(qs, order).clause,
      parms |-> WhereClause(qs, order).parms,
      panic |-> WhereClause(qs, order).panic] : order \in Orders(DOMAIN qs)}

\* what one call of a builder on qs can return
Single(op, columns, qs) ==
    CASE op = "WhereClause" -> SingleWhere(qs)
      [] op = "Select" ->
            {SelectBuild(Table, columns, qs, order) : order \in Orders(DOMAIN qs)}
      [] op = "Delete" ->
            {DeleteBuild(Table, columns, qs, order) : order \in Orders(DOMAIN qs)}
      [] op = "Insert" ->
            {InsertBuild(Table, columns, qs, order) : order \in Orders(DOMAIN qs)}
      [] op = "Update" ->
            {UpdateBuild(Table, columns, qs, order[1], order[2]) :
                order \in Orders(DOMAIN qs) \X Orders(DOMAIN qs)}

\* the calls that are to leave the set as it is
Reads == {"WhereClause", "Select", "Delete", "Insert", "Update"}

\* C19: WhereClause and the Build of every builder leave the set as it is:
\* its keys, and the operator and the operands of every entry; a call that
\* follows other calls of them therefore returns what a single call on the
\* set returns, up to the order of the visit
C19_ReadOnly ==
    /\ [][call'.op \in Reads => queries' = queries]_vars
    /\ [](call.op \in Reads => result \in Single(call.op, call.columns, queries))

C19_Witness ==
    /\ call.op = "Insert" /\ ~result.panic
    /\ DOMAIN queries = {<<"a">>, <<"=", "a">>}
    /\ IsSet(queries[<<"=", "a">>]) /\ IsIn(queries[<<"a">>])
    /\ Len(result.parms) = 2

\* C20: no sequence of Add calls from the empty set gives an entry whose
\* operator is IN and that has no operand
C20_NoEmptyIn ==
    \A k \in DOMAIN queries : IsIn(queries[k]) => Len(queries[k]) > 1

(***************************************************************************)
(* The empty set, BETWEEN, and the statements without filter or without    *)
(* assignment.                                                             *)
(***************************************************************************)
\* C21: WhereClause on the empty set returns the empty string and an empty
\* list of parameters
C21_EmptySet ==
    call.op = "WhereClause" /\ queries = NoQueries =>
        /\ ~result.panic
        /\ result.stmt = <<>>
        /\ result.parms = <<>>

C21_Witness ==
    /\ call.op = "WhereClause"
    /\ queries = NoQueries
    /\ result = [stmt |-> <<>>, parms |-> <<>>, panic |-> FALSE]

(***************************************************************************)
(* Sets made from a URL.                                                   *)
(***************************************************************************)
FromURL == call.op \in {"FromURL", "FromRequest"}

\* C22: QueriesFromURL, and QueriesFromRequest that calls it, make one entry
\* for every key of the query: ["=", value] for a key with one value,
\* [IN, v1, ..., vk] with all the values in their order for a key with two
\* values or more; there are as many entries as keys
C22_OneEntryPerKey ==
    FromURL =>
        /\ DOMAIN queries = DOMAIN call.query
        /\ Cardinality(DOMAIN queries) = Cardinality(DOMAIN call.query)
        /\ \A k \in DOMAIN call.query :
              queries[k] = IF Len(call.query[k]) = 1
                           THEN <<QueryEqual, call.query[k][1]>>
                           ELSE <<QueryIn>> \o call.query[k]

C22_Witness ==
    /\ call.op = "FromURL"
    /\ call.query = (<<"a">> :> <<Plain(1)>>) @@ (<<"=", "a">> :> <<Plain(2)>>)
    /\ queries = (<<"a">> :> <<QueryEqual, Plain(1)>>)
                    @@ (<<"=", "a">> :> <<QueryEqual, Plain(2)>>)

(***************************************************************************)
(* Statements without assignment, BETWEEN, statements without filter.      *)
(***************************************************************************)
\* C23: a statement Update.Build returns that is not empty is
\* "UPDATE t SET a = $i, ... WHERE ...", with at least one "col = $n" in its
\* SET list: valid filters without any entry tagged SET never give an empty
\* SET list
C23_UpdateHasAssignment ==
    call.op = "Update" /\ ~result.panic /\ Len(result.stmt) > 0 =>
        LET list == BeforeWhere(result.stmt)
        IN  /\ WherePos(result.stmt) > 0
            /\ Len(list) >= 6
            /\ SubSeq(list, 1, 3) = <<Kw("UPDATE "), Tbl(Table), Kw(" SET ")>>
            /\ list[4][1] = "col" /\ list[5] = Kw(" = ") /\ list[6][1] = "ph"

\* the entry is a BETWEEN with two operands
BetweenTwo(entry) ==
    IsOperator(entry[1]) /\ entry[1].Operator = QueryBetween.Operator /\ Len(entry) = 3

\* C24: WhereClause compiles a BETWEEN entry with two operands into the one
\* fragment "col BETWEEN $n", whose one parameter is the first operand of the
\* entry; the second operand gets no placeholder and is no parameter
C24_BetweenOneParameter ==
    WhereReturned =>
        /\ Len(result.parms) = Len(PlaceholderNumbers(result.stmt))
        /\ \A k \in DOMAIN queries :
              BetweenTwo(queries[k]) =>
                  /\ Cardinality({i \in 1..Len(result.stmt) : result.stmt[i] = Col(k)}) = 1
                  /\ \A i \in 1..Len(result.stmt) :
                        result.stmt[i] = Col(k) =>
                            /\ i + 2 <= Len(result.stmt)
                            /\ result.stmt[i + 1] = Sym(QueryBetween)
                            /\ result.stmt[i + 2][1] = "ph"
                            /\ result.stmt[i + 2][2] \in 1..Len(result.parms)
                            /\ result.parms[result.stmt[i + 2][2]] = queries[k][2]
                            /\ \/ i + 2 = Len(result.stmt)
                               \/ /\ i + 4 <= Len(result.stmt)
                                  /\ result.stmt[i + 3] = And
                                  /\ result.stmt[i + 4][1] = "col"

C24_Witness ==
    /\ call.op = "WhereClause"
    /\ queries = (<<"a">> :> <<QueryBetween, Plain(1), Plain(2)>>)
    /\ result = [stmt |-> <<Col(<<"a">>), Sym(QueryBetween), Ph(1)>>,
                 parms |-> <<Plain(1)>>,
                 panic |-> FALSE]

\* C25: Delete.Build returns a statement without WHERE clause and no
\* parameter exactly when the set holds no IN entry and no entry of another
\* operator than SET whose length is the operator's arity; a set that is not
\* empty but holds only entries tagged SET or of the wrong arity gives the
\* "DELETE FROM table" of the empty set
C25_UnconditionalDelete ==
    call.op = "Delete" =>
        /\ ~result.panic
        /\ (WherePos(result.stmt) = 0 /\ result.parms = <<>>)
              <=> (\A k \in DOMAIN queries : ~ValidFilter(queries[k]))
        /\ (\A k \in DOMAIN queries : ~ValidFilter(queries[k])) =>
              result.stmt = <<Kw("DELETE FROM "), Tbl(Table)>>

C25_Witness ==
    /\ call.op = "Delete"
    /\ \E k \in DOMAIN queries : IsSet(queries[k])
    /\ \E k \in DOMAIN queries : ~IsSet(queries[k]) /\ ~ValidFilter(queries[k])
    /\ result = [stmt |-> <<Kw("DELETE FROM "), Tbl(Table)>>, parms |-> <<>>,
                 panic |-> FALSE]

(***************************************************************************)
(* The shape of the set under Add.                                         *)
(***************************************************************************)
\* C26: after any sequence of Add calls from the empty set every key has one
\* entry, no entry is empty, and the first element of every entry is an
\* operator, never a plain operand
C26_OperatorFirst ==
    /\ queries \in [DOMAIN queries -> Seq(Operands \cup OperatorInputs \cup {QueryEqual})]
    /\ \A k \in DOMAIN queries :
          /\ Len(queries[k]) >= 1
          /\ IsOperator(queries[k][1])

C26_Witness ==
    /\ call.op = "Add"
    /\ call.values = <<QueryGreater, Plain(2)>>
    /\ DOMAIN queries = {<<"a">>}
    /\ queries[<<"a">>] = <<QueryIn, Plain(1), QueryGreater, Plain(2)>>

\* C27: an Add call only makes the set grow: no key is removed, no entry gets
\* shorter, the operands stored keep their values and their order, and the
\* one element of an entry that Add may change is its operator, to IN
C27_OnlyGrows ==
    [][call'.op = "Add" =>
          /\ DOMAIN queries \subseteq DOMAIN queries'
          /\ \A k \in DOMAIN queries :
                /\ Len(queries'[k]) >= Len(queries[k])
                /\ \A i \in 2..Len(queries[k]) : queries'[k][i] = queries[k][i]
                /\ queries'[k][1] \in {queries[k][1], QueryIn}]_vars

C27_Witness ==
    /\ Added
    /\ call.before = (<<"=", "a">> :> <<QuerySet, Plain(1)>>)
    /\ queries = (<<"=", "a">> :> <<QueryIn, Plain(1), QuerySet, Plain(2)>>)

\* an operator is given to Add as the first value of a call only
OperatorsFirstOnly ==
    \A values \in ValueLists : \A i \in 2..Len(values) : ~IsOperator(values[i])

\* C28: when operators are passed to Add as the first value of a call only, no
\* list of parameters that WhereClause or a builder returns holds an operator:
\* the parameters are operands the caller gave
C28_NoOperatorParameter ==
    OperatorsFirstOnly /\ (WhereReturned \/ Built) =>
        \A i \in 1..Len(result.parms) : ~IsOperator(result.parms[i])

\* C29: every entry of a set that QueriesFromURL alone has made has the
\* operator "=" or IN, whatever the keys and the values of the query, a key
\* that begins with "=" included: no entry is tagged SET or has another
\* operator, and Update.Build on such a set writes no assignment
C29_URLFiltersOnly ==
    /\ \A k \in DOMAIN queries :
          /\ queries[k][1] \in {QueryEqual, QueryIn}
          /\ \A i \in 2..Len(queries[k]) : ~IsOperator(queries[k][i])
    /\ call.op = "Update" /\ ~result.panic /\ Len(result.stmt) > 0 =>
          /\ \A i \in 1..Len(BeforeWhere(result.stmt)) :
                BeforeWhere(result.stmt)[i][1] # "col"
          /\ Len(result.parms) = Len(PlaceholderNumbers(AfterWhere(result.stmt)))

C29_Witness ==
    /\ call.op = "Update"
    /\ queries = (<<"=", "a">> :> <<QueryEqual, Plain(1)>>)
    /\ result = [stmt |-> <<Kw("UPDATE "), Tbl(Table), Kw(" SET "), Kw(" WHERE "),
                            Col(<<"=", "a">>), Sym(QueryEqual), Ph(1)>>,
                 parms |-> <<Plain(1)>>,
                 panic |-> FALSE]

====
